---- MODULE Spec2Model ----
(***************************************************************************)
(* Model of the pommel-horse aesthetics server: the static taxonomy        *)
(* tables, their accessors, the three validators and the routine           *)
(* structure mapper.  Every exposed operation is one action: it draws its  *)
(* arguments from a bounded set, records them in `call` and records what   *)
(* the Python function returns in `ret`.  The module-level tables are      *)
(* state, so that a mutation by an operation would be visible.  `seen` is  *)
(* a history variable: an earlier call and its result, kept to compare a   *)
(* later call with the same arguments against.                             *)
(*                                                                         *)
(* Python values: a dict is a function whose DOMAIN is its key set (a      *)
(* missing key is a missing domain element), a list is a sequence, a set   *)
(* is a set.  `ret` always holds a record: a returned dict is itself, a    *)
(* returned str s is Str(s) and a returned None is the record `None`.      *)
(* quality_score is kept in tenths (10.0 is 100, a 0.3 penalty is 3).      *)
(* Flags (pause, body_extended, ...) are Python bools, TRUE and FALSE      *)
(* here, so the truth value of a flag is the flag.                         *)
(***************************************************************************)
EXTENDS Integers, Sequences, FiniteSets, TLC

VARIABLES ELEMENT_GROUPS, SPATIAL_ZONES, TEMPORAL_QUALITIES, FORM_ELEMENTS,
          EXECUTION_DEDUCTIONS, call, ret, seen

(* The four taxonomy tables and the deduction catalog. *)
tables ==
    <<ELEMENT_GROUPS, SPATIAL_ZONES, TEMPORAL_QUALITIES, FORM_ELEMENTS,
      EXECUTION_DEDUCTIONS>>

vars == <<tables, call, ret, seen>>

(* Longest element sequence a caller passes. *)
MaxLen == 4

(* Longest sequence of elements of any JSON type a caller passes. *)
MaxJsonLen == 2

(* Longest sequence of plain elements passed to the tempo validator, long  *)
(* enough to pass the fatigue threshold.                                   *)
MaxLongLen == 9

(* Longest sequence of elements that carry only an element_type. *)
MaxTypeLen == 2

(***************************************************************************)
(* Python primitives                                                       *)
(***************************************************************************)
None == [NoneType |-> "None"]

(* a str object as a returned value *)
Str(s) == [str |-> s]

(* dict.get(key, default) *)
Get(d, k, default) == IF k \in DOMAIN d THEN d[k] ELSE default

(* d.get(k) == s for a string s: the None of a missing key equals no string *)
GetEquals(d, k, s) == k \in DOMAIN d /\ d[k] = s

(* the empty dict *)
EmptyDict == [k \in {} |-> None]

(* d with d[k] = v set *)
SetItem(d, k, v) ==
    [x \in DOMAIN d \cup {k} |-> IF x = k THEN v ELSE d[x]]

(* the values of a dict *)
Values(d) == {d[k] : k \in DOMAIN d}

(* the set of members of a list *)
Range(s) == {s[i] : i \in 1..Len(s)}

(* the truth value of a dict or None: None and the empty dict are false *)
TruthyDict(d) == DOMAIN d # {} /\ d # None

(* the truth value of a str: the empty string is false *)
TruthyStr(s) == s # ""

(***************************************************************************)
(* element_groups.py                                                       *)
(***************************************************************************)
(* Insertion order of the keys of ELEMENT_GROUPS. *)
ELEMENT_GROUPS_keys ==
    <<"scissors_single_leg", "circles_flairs", "travels",
      "spindles_handstands", "dismounts">>

(* The table: id, name, description, visual_signature and the movements    *)
(* mapping of each group, each movement record kept as its key set.  The   *)
(* dismounts entry has a "types" mapping and no "movements".  The groups'  *)
(* other fields (placement, form_requirements, ...) are read by no         *)
(* operation and are left out.                                             *)
ELEMENT_GROUPS_table ==
    [scissors_single_leg |->
        [id |-> "EG_I", name |-> "Scissors & Single-Leg Work",
         description |-> "Pendulum swings with separated legs, single-leg cuts and transfers",
         visual_signature |-> "Split geometry with asymmetric leg positions",
         movements |->
            [basic_scissor |->
                {"pattern", "amplitude", "separation", "rhythm"},
             double_scissor |-> {"pattern", "complexity", "visual"},
             traveling_scissor |-> {"pattern", "example", "spatial"},
             scissor_to_handstand |-> {"pattern", "difficulty", "visual"}]],
     circles_flairs |->
        [id |-> "EG_II", name |-> "Circles & Flairs",
         description |-> "Continuous rotational patterns - foundation of pommel horse work",
         visual_signature |-> "Horizontal body rotation with legs as radius",
         movements |->
            [double_leg_circle |->
                {"pattern", "body_position", "form", "rhythm",
                 "critical_phases"},
             flair |->
                {"pattern", "visual", "straddle", "purpose", "example"},
             russian |-> {"pattern", "hand_movement", "visual"},
             spindle |-> {"pattern", "complexity", "visual"}]],
     travels |->
        [id |-> "EG_III", name |-> "Travels",
         description |-> "Circles that translate across the horse length",
         visual_signature |-> "Rotational motion with lateral displacement",
         movements |->
            [magyar |-> {"direction", "difficulty", "pattern", "visual"},
             sivado |->
                {"direction", "difficulty", "pattern", "form", "visual"},
             roth |-> {"pattern", "difficulty", "technique"},
             wu_guonian |-> {"pattern", "difficulty", "complexity"}]],
     spindles_handstands |->
        [id |-> "EG_IV", name |-> "Spindles & Handstands",
         description |-> "Rotational variations and vertical positions",
         visual_signature |-> "Dimensional complexity and static-dynamic contrast",
         movements |->
            [spindle_basic |-> {"pattern", "visual", "difficulty_modifier"},
             full_spindle_end |-> {"location", "difficulty", "pattern"},
             full_spindle_saddle |->
                {"location", "difficulty", "complexity"},
             kehr_variations |->
                {"pattern", "sohn", "bezugo", "efficiency", "visual"},
             handstand_element |->
                {"pattern", "placement", "form", "deduction_trigger"}]],
     dismounts |->
        [id |-> "EG_V", name |-> "Dismounts",
         description |-> "Exit elements - now their own element group (2025-28 cycle)",
         visual_signature |-> "Final impression, routine punctuation",
         types |->
            [russian_dismount |-> {"pattern", "highest_value", "visual"},
             handstand_dismount |->
                {"pattern", "more_common", "difficulty_factors",
                 "highest_value", "example"}]]]

(* A variant matching the semantic name only. *)
GroupMatches_KeyOnly(key, group, group_id) == key = group_id

(* The test of the loop body of get_element_group. *)
GroupMatches(key, group, group_id) ==
    GetEquals(group, "id", group_id) \/ key = group_id

(* The for loop of get_element_group from position i on: the first entry   *)
(* whose id or key equals group_id, None when the loop runs out.           *)
RECURSIVE get_element_group_from(_, _, _)
get_element_group_from(groups, group_id, i) ==
    IF i > Len(ELEMENT_GROUPS_keys) THEN None
    ELSE LET key == ELEMENT_GROUPS_keys[i]
             group == groups[key]
         IN IF GroupMatches(key, group, group_id)
            THEN group
            ELSE get_element_group_from(groups, group_id, i + 1)

get_element_group(groups, group_id) ==
    get_element_group_from(groups, group_id, 1)

get_all_element_groups(groups) == groups

(* get_movements_by_group: the group's "movements" mapping, the empty dict *)
(* when the group has none or there is no such group.                      *)
get_movements_by_group(groups, group_id) ==
    LET group == get_element_group(groups, group_id)
    IN IF TruthyDict(group)
       THEN Get(group, "movements", EmptyDict)
       ELSE EmptyDict

(* Strings a caller passes as group_id: the keys, the ids, and strings     *)
(* that are neither (case variants, display names, the empty string).      *)
GroupIdArgs ==
    Range(ELEMENT_GROUPS_keys)
    \cup {"EG_I", "EG_II", "EG_III", "EG_IV", "EG_V"}
    \cup {"eg_i", "EG_VI", "Dismounts", "Travels", "DISMOUNTS", "",
          "scissors", "EG_", "id", "movements"}

(***************************************************************************)
(* form_assessment.py                                                      *)
(***************************************************************************)
(* The form rules table: each category kept as the key set of its rules. *)
FORM_ELEMENTS_table ==
    [body_extension |->
        {"straight_body", "hip_position", "chest_opening",
         "shoulder_alignment"},
     leg_form |->
        {"together_vs_apart", "leg_extension", "toe_pointing", "amplitude"},
     hand_technique |-> {"placement", "pushing", "switching", "grip"},
     apparatus_relationship |-> {"clearance", "support_efficiency"},
     position_quality |->
        {"front_support", "back_support", "side_support", "handstand"}]

(* The aesthetic qualities and scoring context tables, as their key sets. *)
AESTHETIC_QUALITIES == {"precision", "control", "difficulty", "artistry"}

SCORING_CONTEXT == {"execution_score", "difficulty_score", "total_score"}

(* Insertion order of the categories of EXECUTION_DEDUCTIONS. *)
EXECUTION_DEDUCTIONS_keys ==
    <<"form_breaks", "technical_errors", "apparatus_violations",
      "rhythm_errors">>

EXECUTION_DEDUCTIONS_table ==
    [form_breaks |->
        [bent_knees |-> "Throughout routine",
         flexed_feet |-> "Lack of toe pointing",
         bent_arms |-> "During support phases",
         pike_body |-> "Hip angle break",
         arched_body |-> "Excessive spinal extension"],
     technical_errors |->
        [lack_of_extension |-> "Circles and flairs not fully extended",
         hip_breaks |-> "Hip angle collapse in circles/flairs",
         lack_of_amplitude |-> "Scissors/swings below shoulder height",
         insufficient_separation |-> "Scissor legs not wide enough",
         show_of_strength |-> "Visible muscle strain in handstands",
         pausing |-> "Any stop during routine",
         lowering |-> "Descent from handstand position"],
     apparatus_violations |->
        [brushing |-> "Light contact with apparatus",
         hitting |-> "Solid contact with apparatus",
         missing_zones |-> "Not using all three sections",
         hand_slip |-> "Loss of pommel grip (major error)"],
     rhythm_errors |->
        [tempo_break |-> "Inconsistent speed",
         pause |-> "Complete stop in motion",
         rushed_element |-> "Excessive speed loss of control",
         sluggish_element |-> "Loss of momentum"]]

(* A variant matching deduction names only. *)
DeductionMatches_NamesOnly(errors, error_type) ==
    error_type \in DOMAIN errors

(* The test of the loop body of get_deduction_category. *)
DeductionMatches(errors, error_type) ==
    error_type \in DOMAIN errors \/ error_type \in Values(errors)

(* The for loop of get_deduction_category from position i on. *)
RECURSIVE get_deduction_category_from(_, _, _)
get_deduction_category_from(deds, error_type, i) ==
    IF i > Len(EXECUTION_DEDUCTIONS_keys) THEN "unknown"
    ELSE LET category == EXECUTION_DEDUCTIONS_keys[i]
         IN IF DeductionMatches(deds[category], error_type)
            THEN category
            ELSE get_deduction_category_from(deds, error_type, i + 1)

(* A variant whose loop misses the first category. *)
get_deduction_category_SkipFirst(deds, error_type) ==
    get_deduction_category_from(deds, error_type, 1 + 1)

get_deduction_category(deds, error_type) ==
    get_deduction_category_from(deds, error_type, 1)

(* Penalties of assess_form_quality, in tenths of a point. *)
START_SCORE == 100
PENALTY_lack_of_extension == 3
PENALTY_bent_knees == 3
(* A variant charging flexed feet like bent knees. *)
PENALTY_flexed_feet_AsKnees == PENALTY_bent_knees
PENALTY_flexed_feet == 1
PENALTY_lack_of_amplitude == 3
(* A variant that records brushing and charges nothing. *)
PENALTY_brushing_Free == PENALTY_flexed_feet - PENALTY_flexed_feet
PENALTY_brushing == 1
(* A variant charging hitting as a fall-sized error. *)
PENALTY_hitting_Large == PENALTY_bent_knees + PENALTY_bent_knees
PENALTY_hitting == 3

Max(a, b) == IF a >= b THEN a ELSE b

(* A variant that takes every scissor movement for a scissor. *)
AmplitudeApplies_AnyScissor(ex) ==
    GetEquals(ex, "element_type", "scissor")
    \/ GetEquals(ex, "element_type", "double_scissor")

(* The outer test of the amplitude check. *)
AmplitudeApplies(ex) == GetEquals(ex, "element_type", "scissor")

(* The six checks of assess_form_quality, in program order: whether each   *)
(* fires, the name it appends and the penalty it subtracts.                *)
FormChecks(ex) ==
    << [fires |-> ~Get(ex, "body_extended", TRUE),
        name |-> "lack_of_extension", penalty |-> PENALTY_lack_of_extension],
       [fires |-> ~Get(ex, "legs_straight", TRUE),
        name |-> "bent_knees", penalty |-> PENALTY_bent_knees],
       [fires |-> ~Get(ex, "toes_pointed", TRUE),
        name |-> "flexed_feet", penalty |-> PENALTY_flexed_feet],
       [fires |-> AmplitudeApplies(ex) /\ ~Get(ex, "above_shoulder", TRUE),
        name |-> "lack_of_amplitude", penalty |-> PENALTY_lack_of_amplitude],
       [fires |-> Get(ex, "brushing", FALSE),
        name |-> "brushing", penalty |-> PENALTY_brushing],
       [fires |-> Get(ex, "hitting", FALSE),
        name |-> "hitting", penalty |-> PENALTY_hitting] >>

(* Runs checks i.. on the accumulator [deductions, quality_score]. *)
RECURSIVE RunFormChecks(_, _, _)
RunFormChecks(checks, i, acc) ==
    IF i > Len(checks) THEN acc
    ELSE RunFormChecks(checks, i + 1,
            IF checks[i].fires
            THEN [deductions |-> Append(acc.deductions, checks[i].name),
                  quality_score |-> acc.quality_score - checks[i].penalty]
            ELSE acc)

assess_form_quality(ex) ==
    LET acc == RunFormChecks(FormChecks(ex), 1,
                   [deductions |-> <<>>, quality_score |-> START_SCORE])
    IN [quality_score |-> Max(0, acc.quality_score),
        deductions |-> acc.deductions,
        form_assessment |-> IF acc.deductions = <<>> THEN "clean"
                            ELSE "errors_present"]

(***************************************************************************)
(* spatial_zones.py                                                        *)
(***************************************************************************)
(* The table: the three lookup mappings, each entry kept with two of its   *)
(* fields.  The spatial_requirements and dimensional_analysis sub-tables   *)
(* are looked up by no operation and are kept as their key sets.           *)
SPATIAL_ZONES_table ==
    [apparatus_sections |->
        [end_left |->
            [name |-> "Left End",
             description |-> "Leftmost section of horse"],
         saddle |->
            [name |-> "Saddle (Center)",
             description |-> "Central section between pommels"],
         end_right |->
            [name |-> "Right End",
             description |-> "Rightmost section of horse"]],
     support_configurations |->
        [between_pommels |->
            [position |-> "Hands on both pommels",
             stability |-> "Maximum - widest base"],
         single_pommel |->
            [position |-> "Both hands on one pommel",
             stability |-> "Advanced - requires precise balance"],
         leather_only |->
            [position |-> "Hands on apparatus surface (no pommels)",
             stability |-> "Most challenging"],
         one_pommel_one_leather |->
            [position |->
                "Mixed support - one hand on pommel, one on leather",
             stability |-> "Moderate difficulty"]],
     trajectory_patterns |->
        [stationary_circle |->
            [description |-> "Rotation without translation",
             path |-> "Fixed circular plane"],
         longitudinal_travel |->
            [description |-> "Movement along horse length",
             path |-> "Linear translation with rotation"],
         transverse_circle |->
            [description |-> "Rotation across horse width",
             path |-> "Perpendicular to length axis"],
         diagonal_path |->
            [description |-> "Angled trajectory across apparatus",
             path |-> "Oblique to length axis"]],
     spatial_requirements |->
        {"zone_coverage", "pommel_spacing", "body_clearance"},
     dimensional_analysis |->
        {"vertical_plane", "horizontal_plane", "sagittal_plane"}]

(* The apparatus specification table, kept as its key set. *)
APPARATUS_SPECS == {"dimensions", "construction", "safety"}

get_support_config(sz, config_name) ==
    Get(sz.support_configurations, config_name, EmptyDict)

get_trajectory_pattern(sz, pattern_name) ==
    Get(sz.trajectory_patterns, pattern_name, EmptyDict)

(* The zones_used set built by the loop of analyze_spatial_coverage. *)
ZonesUsed(elements) ==
    {elements[i].zone :
        i \in {j \in 1..Len(elements) : "zone" \in DOMAIN elements[j]}}

(* A variant judging completeness by the number of zones. *)
CoverageComplete_ByCount(zones_used) == Cardinality(zones_used) >= 3

(* A variant that leaves the saddle out of the test. *)
CoverageComplete_EndsOnly(zones_used) ==
    /\ "end_left" \in zones_used
    /\ "end_right" \in zones_used

(* The coverage_complete expression. *)
CoverageComplete(zones_used) ==
    /\ "end_left" \in zones_used
    /\ "saddle" \in zones_used
    /\ "end_right" \in zones_used

(* A variant counting the three sections of the horse only. *)
AllSectionsUsed_Canonical(zones_used) ==
    Cardinality(zones_used \cap {"end_left", "saddle", "end_right"}) >= 3

(* The all_sections_used expression. *)
AllSectionsUsed(zones_used) == Cardinality(zones_used) >= 3

(* zones_covered is list(zones_used), a list in no particular order with   *)
(* no duplicates: it is kept as the set.                                   *)
analyze_spatial_coverage(elements) ==
    LET zones_used == ZonesUsed(elements)
    IN [zones_covered |-> zones_used,
        all_sections_used |-> AllSectionsUsed(zones_used),
        coverage_complete |-> CoverageComplete(zones_used)]

(***************************************************************************)
(* temporal_qualities.py                                                   *)
(***************************************************************************)
(* The table: the two lookup mappings, each entry kept with one of its     *)
(* fields; the sub-tables looked up by no operation are kept as their key  *)
(* sets.                                                                   *)
TEMPORAL_QUALITIES_table ==
    [rhythm_patterns |->
        [metronomic |->
            [description |-> "Even, clockwork-like tempo throughout"],
         accelerating |->
            [description |-> "Gradual tempo increase through sequence"],
         decelerating |->
            [description |-> "Controlled tempo reduction"],
         syncopated |->
            [description |->
                "Varied rhythm with intentional tempo shifts"]],
     continuity |->
        {"unbroken_flow", "transition_quality", "momentum_management"},
     phase_timing |->
        [critical_phases |->
            [quarter_position |-> [timing |-> "25% through circle"],
             half_position |-> [timing |-> "50% through circle"],
             three_quarter_position |-> [timing |-> "75% through circle"],
             completion_position |-> [timing |-> "100% - return to start"]],
         swing_phases |-> {"upswing", "peak", "downswing"}],
     tempo_characteristics |-> {"velocity", "consistency"},
     endurance_dynamics |->
        {"fatigue_patterns", "conditioning_requirements"},
     temporal_aesthetics |->
        {"flow_quality", "phrasing", "climax_placement"}]

(* The timing metrics table, kept as its key set. *)
TIMING_METRICS == {"routine_duration", "element_duration"}

get_rhythm_pattern(tq, pattern_name) ==
    Get(tq.rhythm_patterns, pattern_name, EmptyDict)

get_critical_phase(tq, phase_name) ==
    Get(tq.phase_timing.critical_phases, phase_name, EmptyDict)

(* A variant flagging a routine of exactly eight elements. *)
FATIGUE_THRESHOLD_Seven == 8 - 1

FATIGUE_THRESHOLD == 8

(* A variant looking at the first element only. *)
AnyPause_FirstOnly(routine_structure) ==
    /\ Len(routine_structure) > 0
    /\ Get(routine_structure[1], "pause", FALSE)

(* any(el.get("pause", False) for el in routine_structure) *)
AnyPause(routine_structure) ==
    \E i \in 1..Len(routine_structure) :
        Get(routine_structure[i], "pause", FALSE)

(* set(tempos) for tempos = [el.get("tempo", "moderate") for el in ...] *)
TempoSet(routine_structure) ==
    {Get(routine_structure[i], "tempo", "moderate") :
        i \in 1..Len(routine_structure)}

(* A variant that assigns "syncopated" only to two or more tempos and       *)
(* otherwise leaves rhythm_pattern at its initial value.                   *)
RhythmPattern_KeepsInitial(routine_structure) ==
    IF Cardinality(TempoSet(routine_structure)) = 1 THEN "metronomic"
    ELSE IF Cardinality(TempoSet(routine_structure)) > 1 THEN "syncopated"
    ELSE "unknown"

(* rhythm_pattern after the if/else on len(set(tempos)): both branches     *)
(* overwrite the initial "unknown".                                        *)
RhythmPattern(routine_structure) ==
    IF Cardinality(TempoSet(routine_structure)) = 1
    THEN "metronomic" ELSE "syncopated"

analyze_tempo_strategy(routine_structure) ==
    [continuity_maintained |-> ~AnyPause(routine_structure),
     rhythm_pattern |-> RhythmPattern(routine_structure),
     fatigue_risk_zones |->
        IF Len(routine_structure) > FATIGUE_THRESHOLD
        THEN <<"routine_end">> ELSE <<>>,
     temporal_aesthetic |-> <<>>]

(***************************************************************************)
(* server.py: map_routine_structure                                        *)
(***************************************************************************)
MIN_GROUPS == 4

NOTE_GROUPS == "Insufficient element group variety - need 4 groups"
NOTE_ZONES == "Incomplete zone coverage - must use all 3 sections"
NOTE_PAUSES == "Routine has pauses - continuity required"

(* A variant of the chain that compares the keywords of the first branch    *)
(* without regard to the case of the first letter.                         *)
GroupsOfType_AnyCase(elem_type) ==
    IF elem_type \in {"circle", "flair", "russian", "spindle",
                      "Circle", "Flair", "Russian", "Spindle"}
    THEN {"circles_flairs"}
    ELSE IF elem_type \in {"scissor", "single_leg"}
    THEN {"scissors_single_leg"}
    ELSE IF elem_type \in {"magyar", "sivado", "travel"}
    THEN {"travels"}
    ELSE IF elem_type \in {"dismount"}
    THEN {"dismounts"}
    ELSE {}

(* A variant of the chain that files a spindle under the group of the      *)
(* table that bears its name.                                              *)
GroupsOfType_SpindleGroup(elem_type) ==
    IF elem_type \in {"circle", "flair", "russian"}
    THEN {"circles_flairs"}
    ELSE IF elem_type \in {"spindle"}
    THEN {"spindles_handstands"}
    ELSE IF elem_type \in {"scissor", "single_leg"}
    THEN {"scissors_single_leg"}
    ELSE IF elem_type \in {"magyar", "sivado", "travel"}
    THEN {"travels"}
    ELSE IF elem_type \in {"dismount"}
    THEN {"dismounts"}
    ELSE {}

(* The if/elif chain mapping an element type to the groups it adds. *)
GroupsOfType(elem_type) ==
    IF elem_type \in {"circle", "flair", "russian", "spindle"}
    THEN {"circles_flairs"}
    ELSE IF elem_type \in {"scissor", "single_leg"}
    THEN {"scissors_single_leg"}
    ELSE IF elem_type \in {"magyar", "sivado", "travel"}
    THEN {"travels"}
    ELSE IF elem_type \in {"dismount"}
    THEN {"dismounts"}
    ELSE {}

(* A variant of the tally that forgets the count so far. *)
Tally_Overwrite(difficulty_profile, diff) ==
    SetItem(difficulty_profile, diff, 1)

(* The difficulty_profile update of one element. *)
Tally(difficulty_profile, diff) ==
    SetItem(difficulty_profile, diff, Get(difficulty_profile, diff, 0) + 1)

(* The loop over element_sequence from position i on, on the accumulator   *)
(* [element_groups_present, difficulty_profile].                           *)
RECURSIVE DistributionLoop(_, _, _)
DistributionLoop(element_sequence, i, acc) ==
    IF i > Len(element_sequence) THEN acc
    ELSE LET element == element_sequence[i]
             elem_type == Get(element, "element_type", "unknown")
             diff == Get(element, "difficulty_value", "A")
         IN DistributionLoop(element_sequence, i + 1,
                [element_groups_present |->
                    acc.element_groups_present \cup GroupsOfType(elem_type),
                 difficulty_profile |->
                    Tally(acc.difficulty_profile, diff)])

(* A variant requiring one group fewer. *)
GroupCheckFails_Three(element_groups_present) ==
    Cardinality(element_groups_present) < MIN_GROUPS - 1

(* The element group requirement check: does it fail? *)
GroupCheckFails(element_groups_present) ==
    Cardinality(element_groups_present) < MIN_GROUPS

(* A variant that fails on incomplete coverage whether requested or not. *)
SpatialCheckFails_Always(include_spatial, spatial_coverage) ==
    ~spatial_coverage.coverage_complete

(* The spatial check: does it run and fail? *)
SpatialCheckFails(include_spatial, spatial_coverage) ==
    include_spatial /\ ~spatial_coverage.coverage_complete

(* The temporal check: does it run and fail? *)
TemporalCheckFails(include_temporal, temporal_strategy) ==
    include_temporal /\ ~temporal_strategy.continuity_maintained

(* A variant in which a passing check sets structure_valid again. *)
ValidAfter_Reset(structure_valid, fails) == ~fails

(* structure_valid after one check: a failing check assigns False, a       *)
(* passing check assigns nothing.                                          *)
ValidAfter(structure_valid, fails) ==
    IF fails THEN FALSE ELSE structure_valid

(* A variant that stores the spatial analysis whatever the flag. *)
SpatialField_Always(include_spatial, spatial) ==
    [spatial_coverage |-> spatial]

(* The key the spatial block adds to the analysis. *)
SpatialField(include_spatial, spatial) ==
    IF include_spatial THEN [spatial_coverage |-> spatial] ELSE EmptyDict

(* The key the temporal block adds to the analysis. *)
TemporalField(include_temporal, temporal) ==
    IF include_temporal THEN [temporal_strategy |-> temporal] ELSE EmptyDict

(* element_groups_present is list(set): kept as the set. *)
map_routine_structure(element_sequence, include_spatial, include_temporal) ==
    LET dist == DistributionLoop(element_sequence, 1,
                    [element_groups_present |-> {},
                     difficulty_profile |-> EmptyDict])
        spatial == analyze_spatial_coverage(element_sequence)
        temporal == analyze_tempo_strategy(element_sequence)
        f1 == GroupCheckFails(dist.element_groups_present)
        f2 == SpatialCheckFails(include_spatial, spatial)
        f3 == TemporalCheckFails(include_temporal, temporal)
        valid0 == TRUE
        valid1 == ValidAfter(valid0, f1)
        valid2 == ValidAfter(valid1, f2)
        valid3 == ValidAfter(valid2, f3)
        notes == (IF f1 THEN <<NOTE_GROUPS>> ELSE <<>>)
                 \o (IF f2 THEN <<NOTE_ZONES>> ELSE <<>>)
                 \o (IF f3 THEN <<NOTE_PAUSES>> ELSE <<>>)
    IN [element_count |-> Len(element_sequence),
        element_groups_present |-> dist.element_groups_present,
        difficulty_profile |-> dist.difficulty_profile,
        structure_valid |-> valid3,
        notes |-> notes,
        synthesis_ready |-> valid3]
       @@ SpatialField(include_spatial, spatial)
       @@ TemporalField(include_temporal, temporal)

(***************************************************************************)
(* server.py: map_routine_structure on elements of any JSON type           *)
(*                                                                         *)
(* The elements of element_sequence arrive as decoded JSON: nothing makes  *)
(* an element a dict or a field a string.  A value of any type is kept as  *)
(* its Python type name and its repr; a dict element is kept as its type   *)
(* name and its items.                                                     *)
(***************************************************************************)
Box(type, repr) == [type |-> type, repr |-> repr]

DictOf(items) == [type |-> "dict", items |-> items]

(* hash(v) succeeds: lists and dicts are unhashable *)
Hashable(v) == v.type \notin {"list", "dict"}

(* bool(v) *)
Truth(v) ==
    CASE v.type = "bool" -> v.repr = "True"
      [] v.type = "NoneType" -> FALSE
      [] v.type = "int" -> v.repr # "0"
      [] v.type = "str" -> v.repr # ""
      [] v.type = "list" -> v.repr # "[]"
      [] v.type = "dict" -> v.repr # "{}"

(* The element as the operators above take it, once every value is known   *)
(* to be hashable: a str is its characters, a hashable value of another    *)
(* type is its repr, which is equal to no string the code compares it      *)
(* with, and a pause value is its truth value.                             *)
Unbox(element) ==
    [k \in DOMAIN element.items |->
        IF k = "pause" THEN Truth(element.items[k])
        ELSE element.items[k].repr]

UnboxAll(element_sequence) ==
    [i \in 1..Len(element_sequence) |-> Unbox(element_sequence[i])]

(* What one pass of the loop body raises, "" when it raises nothing:       *)
(* element.get on a value that is no dict, and the difficulty_profile      *)
(* update on an unhashable difficulty_value.                               *)
LoopBodyRaises(element) ==
    IF element.type # "dict" THEN "AttributeError"
    ELSE IF "difficulty_value" \in DOMAIN element.items
            /\ ~Hashable(element.items.difficulty_value)
    THEN "TypeError"
    ELSE ""

(* What the loop raises from position i on: the first pass that raises     *)
(* ends the call.                                                          *)
RECURSIVE LoopRaises(_, _)
LoopRaises(element_sequence, i) ==
    IF i > Len(element_sequence) THEN ""
    ELSE IF LoopBodyRaises(element_sequence[i]) # ""
    THEN LoopBodyRaises(element_sequence[i])
    ELSE LoopRaises(element_sequence, i + 1)

(* zones_used.add(element["zone"]) raises on an unhashable zone *)
SpatialRaises(elements) ==
    \E i \in 1..Len(elements) :
        /\ "zone" \in DOMAIN elements[i].items
        /\ ~Hashable(elements[i].items.zone)

(* set(tempos) raises on an unhashable tempo *)
TemporalRaises(routine_structure) ==
    \E i \in 1..Len(routine_structure) :
        /\ "tempo" \in DOMAIN routine_structure[i].items
        /\ ~Hashable(routine_structure[i].items.tempo)

(* The outcome of the call: the exception that ends it, or its result. *)
map_routine_structure_json(element_sequence, include_spatial, include_temporal) ==
    IF LoopRaises(element_sequence, 1) # ""
    THEN [raised |-> LoopRaises(element_sequence, 1)]
    ELSE IF include_spatial /\ SpatialRaises(element_sequence)
    THEN [raised |-> "TypeError"]
    ELSE IF include_temporal /\ TemporalRaises(element_sequence)
    THEN [raised |-> "TypeError"]
    ELSE map_routine_structure(UnboxAll(element_sequence), include_spatial,
                               include_temporal)

(***************************************************************************)
(* server.py: get_element_vocabulary                                       *)
(*                                                                         *)
(* The keyword arguments of a tool call are a dict `args`: an Optional     *)
(* parameter that is not passed, or passed as None, is a missing key.      *)
(***************************************************************************)
(* `if p:` for an Optional[str] parameter p: None and "" are false. *)
OptTruthy(args, p) == p \in DOMAIN args /\ TruthyStr(args[p])

(* The summary of one group. *)
GroupSummary(group_data) ==
    [id |-> Get(group_data, "id", None),
     name |-> Get(group_data, "name", None),
     description |-> Get(group_data, "description", None),
     visual_signature |-> Get(group_data, "visual_signature", None),
     movement_count |->
        Cardinality(DOMAIN Get(group_data, "movements", EmptyDict))]

(* The summary of the whole table. *)
TableSummary(all_groups) ==
    [key \in DOMAIN all_groups |->
        [id |-> Get(all_groups[key], "id", None),
         name |-> Get(all_groups[key], "name", None),
         description |-> Get(all_groups[key], "description", None)]]

get_element_vocabulary(groups, args) ==
    IF OptTruthy(args, "element_group")
    THEN LET group_data == get_element_group(groups, args.element_group)
         IN IF ~TruthyDict(group_data)
            THEN [error |-> "Element group '" \o args.element_group
                            \o "' not found"]
            ELSE IF args.detail_level = "summary"
            THEN GroupSummary(group_data)
            ELSE group_data
    ELSE LET all_groups == get_all_element_groups(groups)
         IN IF args.detail_level = "summary"
            THEN TableSummary(all_groups)
            ELSE all_groups

(***************************************************************************)
(* server.py: analyze_spatial_composition and get_temporal_framework       *)
(*                                                                         *)
(* Each `if` block of the body is one step on the local dict `result`.     *)
(***************************************************************************)
NotFound(what, key) == what \o " '" \o key \o "' not found"

(* if zone_focus: ... *)
ZoneStep(result, sz, args) ==
    IF OptTruthy(args, "zone_focus")
    THEN LET sections == sz.apparatus_sections
         IN IF args.zone_focus \in DOMAIN sections
            THEN SetItem(result, "focused_zone", sections[args.zone_focus])
            ELSE SetItem(result, "error", NotFound("Zone", args.zone_focus))
    ELSE result

(* A variant that gives up the lookup once an error has been recorded. *)
SupportStep_StopOnError(result, sz, args) ==
    IF OptTruthy(args, "support_configuration")
           /\ "error" \notin DOMAIN result
    THEN LET config == get_support_config(sz, args.support_configuration)
         IN IF TruthyDict(config)
            THEN SetItem(result, "support_details", config)
            ELSE SetItem(result, "error",
                         NotFound("Support config",
                                  args.support_configuration))
    ELSE result

(* if support_configuration: ... *)
SupportStep(result, sz, args) ==
    IF OptTruthy(args, "support_configuration")
    THEN LET config == get_support_config(sz, args.support_configuration)
         IN IF TruthyDict(config)
            THEN SetItem(result, "support_details", config)
            ELSE SetItem(result, "error",
                         NotFound("Support config",
                                  args.support_configuration))
    ELSE result

(* if trajectory_type: ... *)
TrajectoryStep(result, sz, args) ==
    IF OptTruthy(args, "trajectory_type")
    THEN LET trajectory == get_trajectory_pattern(sz, args.trajectory_type)
         IN IF TruthyDict(trajectory)
            THEN SetItem(result, "trajectory_details", trajectory)
            ELSE SetItem(result, "error",
                         NotFound("Trajectory", args.trajectory_type))
    ELSE result

analyze_spatial_composition(sz, args) ==
    LET result == [spatial_zones |-> sz, apparatus_specs |-> APPARATUS_SPECS]
    IN TrajectoryStep(SupportStep(ZoneStep(result, sz, args), sz, args),
                      sz, args)

(* if rhythm_type: ... *)
RhythmStep(result, tq, args) ==
    IF OptTruthy(args, "rhythm_type")
    THEN LET rhythm == get_rhythm_pattern(tq, args.rhythm_type)
         IN IF TruthyDict(rhythm)
            THEN SetItem(result, "rhythm_details", rhythm)
            ELSE SetItem(result, "error",
                         NotFound("Rhythm type", args.rhythm_type))
    ELSE result

(* if phase_focus: ... *)
PhaseStep(result, tq, args) ==
    IF OptTruthy(args, "phase_focus")
    THEN LET phase == get_critical_phase(tq, args.phase_focus)
         IN IF TruthyDict(phase)
            THEN SetItem(result, "phase_details", phase)
            ELSE SetItem(result, "error",
                         NotFound("Phase", args.phase_focus))
    ELSE result

get_temporal_framework(tq, args) ==
    LET result == [temporal_qualities |-> tq,
                   timing_metrics |-> TIMING_METRICS]
    IN PhaseStep(RhythmStep(result, tq, args), tq, args)

(***************************************************************************)
(* server.py: assess_execution_form, get_aesthetic_dimensions,             *)
(* synthesize_aesthetic_description, get_server_info                       *)
(***************************************************************************)
assess_execution_form(deds, fe, element_execution) ==
    LET assessment == assess_form_quality(element_execution)
        categories ==
            [deduction \in Range(Get(assessment, "deductions", <<>>)) |->
                get_deduction_category(deds, deduction)]
    IN SetItem(SetItem(SetItem(assessment,
            "deduction_categories", categories),
            "form_elements", fe),
            "scoring_context", SCORING_CONTEXT)

get_aesthetic_dimensions(groups, sz, tq, fe) ==
    [framework |->
        [layer_1_elements |->
            [description |-> "Foundational movement primitives",
             taxonomy |-> groups],
         layer_2_spatial |->
            [description |-> "Geometric and positional vocabulary",
             taxonomy |-> sz],
         layer_3_temporal |->
            [description |-> "Rhythm, timing, and flow patterns",
             taxonomy |-> tq],
         layer_4_form |->
            [description |-> "Execution quality and aesthetic criteria",
             taxonomy |->
                [form_elements |-> fe,
                 aesthetic_qualities |-> AESTHETIC_QUALITIES]]],
     architecture |->
        [pattern |-> "Four-layer categorical hierarchy",
         validation |-> "Tested across 15 domains, 90.9% success rate",
         confidence |-> "99% framework universality"]]

(* The returned text is a fixed template around three interpolated         *)
(* values; it is kept as the template's first line and the three values,   *)
(* focus_areas replaced by ['all'] when it is None or empty.               *)
synthesize_aesthetic_description(args) ==
    Str(<<"LAYER 3 SYNTHESIS POINT",
          args.routine_analysis,
          IF "focus_areas" \in DOMAIN args /\ args.focus_areas # <<>>
          THEN args.focus_areas ELSE <<"all">>,
          args.style_preference>>)

(* name, version and tool list of the server information record; its       *)
(* descriptive sub-records are left out.                                   *)
get_server_info ==
    [name |-> "Pommel Horse Aesthetics MCP",
     version |-> "0.1.0",
     tools |->
        <<"get_element_vocabulary - Movement primitives",
          "analyze_spatial_composition - Geometric vocabulary",
          "get_temporal_framework - Rhythm and timing",
          "assess_execution_form - Form quality evaluation",
          "get_aesthetic_dimensions - Complete framework",
          "map_routine_structure - Deterministic mapping (Layer 1-2)",
          "synthesize_aesthetic_description - LLM synthesis (Layer 3)">>]

(***************************************************************************)
(* The tables after a handler's item assignments                           *)
(***************************************************************************)
(* The keys a handler has assigned in `result` beyond those it was built   *)
(* with.                                                                   *)
AssignedKeys(base, result) == DOMAIN result \ DOMAIN base

(* A variant in which `result` is the table object itself, so that the     *)
(* table receives the handler's assignments.                               *)
TableAfterAssignments_Shared(table, base, result) ==
    [k \in DOMAIN table \cup AssignedKeys(base, result) |->
        IF k \in AssignedKeys(base, result) THEN result[k] ELSE table[k]]

(* A variant in which the handler records its not-found error in the      *)
(* table it has looked the key up in.                                      *)
TableAfterAssignments_ErrorKept(table, base, result) ==
    IF "error" \in AssignedKeys(base, result)
    THEN [k \in DOMAIN table \cup {"error"} |->
             IF k = "error" THEN result[k] ELSE table[k]]
    ELSE table

(* The table a handler has read, after the handler's assignments           *)
(* result[key] = value: `result` is a dict the handler has built itself    *)
(* (server.py 91-94, 139-142; form_assessment.py 276-279), a different     *)
(* object from the table, which therefore receives none of them.           *)
TableAfterAssignments(table, base, result) == table

(***************************************************************************)
(* Callers' arguments                                                      *)
(***************************************************************************)
(* An Optional parameter p: not passed, or passed with a value of S. *)
OptArg(p, S) == {EmptyDict} \cup {[k \in {p} |-> v] : v \in S}

(* Lookup keys a caller passes: keys of the table, and strings that are    *)
(* not (other names, a case variant, the empty string).                    *)
ZoneArgs == {"end_left", "saddle", "end_right", "middle", "Saddle", ""}

SupportArgs ==
    {"between_pommels", "single_pommel", "leather_only",
     "one_pommel_one_leather", "both_pommels", ""}

TrajectoryArgs ==
    {"stationary_circle", "longitudinal_travel", "transverse_circle",
     "diagonal_path", "zigzag", ""}

RhythmArgs ==
    {"metronomic", "accelerating", "decelerating", "syncopated", "rubato",
     "Metronomic", ""}

PhaseArgs ==
    {"quarter_position", "half_position", "three_quarter_position",
     "completion_position", "start_position", "critical_phases", ""}

SpatialCompositionArgs ==
    {a @@ b @@ c : a \in OptArg("zone_focus", ZoneArgs),
                   b \in OptArg("support_configuration", SupportArgs),
                   c \in OptArg("trajectory_type", TrajectoryArgs)}

TemporalFrameworkArgs ==
    {a @@ b : a \in OptArg("rhythm_type", RhythmArgs),
              b \in OptArg("phase_focus", PhaseArgs)}

(* Routine elements a caller passes: dicts with any of the keys            *)
(* element_type, zone, tempo, difficulty_value, pause.  Between them they  *)
(* carry every element group, a type of no group, a missing type, the      *)
(* three canonical zones, three other zone strings, a missing zone, two    *)
(* tempos and a missing tempo, and a true, a false and a missing pause.    *)
Elements ==
    { [element_type |-> "circle", zone |-> "end_left", tempo |-> "fast",
       difficulty_value |-> "B"],
      [element_type |-> "spindle", zone |-> "middle", pause |-> FALSE],
      [element_type |-> "scissor", zone |-> "saddle"],
      [element_type |-> "travel", zone |-> "end_right", tempo |-> "moderate",
       difficulty_value |-> "A"],
      [element_type |-> "dismount", pause |-> TRUE],
      [element_type |-> "dismount", zone |-> "saddle",
       difficulty_value |-> "C"],
      [element_type |-> "Circle", zone |-> "left", tempo |-> "fast"],
      [zone |-> "right", tempo |-> "moderate", pause |-> FALSE] }

ElementSequences == UNION {[1..n -> Elements] : n \in 0..MaxLen}

(* Elements carrying only an element_type: every keyword of the if/elif    *)
(* chain, and types that are no keyword (another case, a plural, the       *)
(* default of the lookup, the empty string).                               *)
TypeOnlyElements ==
    {[element_type |-> k] :
        k \in {"circle", "flair", "russian", "spindle", "scissor",
               "single_leg", "magyar", "sivado", "travel", "dismount",
               "Flair", "circles", "unknown", ""}}

TypeOnlySequences == UNION {[1..n -> TypeOnlyElements] : n \in 0..MaxTypeLen}

(* Long routines, of two elements that differ in every field the tempo     *)
(* validator reads.                                                        *)
PlainElements ==
    { [element_type |-> "circle", tempo |-> "fast"],
      [element_type |-> "scissor", pause |-> TRUE] }

LongSequences == UNION {[1..n -> PlainElements] : n \in 0..MaxLongLen}

(* Keyword arguments of get_element_vocabulary: detail_level is "full"     *)
(* when not passed; element_group is passed or not.                        *)
DetailLevels == {"full", "summary", "Summary"}

VocabularyArgs ==
    {[detail_level |-> d] : d \in DetailLevels}
    \cup {[element_group |-> g, detail_level |-> d] :
            g \in GroupIdArgs, d \in DetailLevels}

(* Elements of any JSON type a caller passes: dicts with a field that is a  *)
(* list, a dict, null or a number, a well-formed dict, the empty dict, and *)
(* elements that are no dicts.                                             *)
JsonElements ==
    { DictOf([element_type |-> Box("str", "circle"),
              zone |-> Box("str", "saddle"),
              tempo |-> Box("str", "fast"),
              difficulty_value |-> Box("str", "B")]),
      DictOf(EmptyDict),
      DictOf([element_type |-> Box("str", "scissor"),
              zone |-> Box("list", "['saddle']")]),
      DictOf([element_type |-> Box("str", "travel"),
              tempo |-> Box("dict", "{}")]),
      DictOf([element_type |-> Box("str", "dismount"),
              difficulty_value |-> Box("list", "['A']")]),
      DictOf([element_type |-> Box("list", "['circle']"),
              pause |-> Box("str", "no")]),
      DictOf([element_type |-> Box("NoneType", "None"),
              zone |-> Box("NoneType", "None"),
              tempo |-> Box("NoneType", "None"),
              difficulty_value |-> Box("NoneType", "None"),
              pause |-> Box("NoneType", "None")]),
      DictOf([element_type |-> Box("int", "7"),
              zone |-> Box("int", "3"),
              difficulty_value |-> Box("int", "2"),
              pause |-> Box("int", "0")]),
      Box("NoneType", "None"),
      Box("str", "circle") }

JsonElementSequences == UNION {[1..n -> JsonElements] : n \in 0..MaxJsonLen}

(* Keyword arguments of synthesize_aesthetic_description. *)
RoutineAnalyses ==
    {EmptyDict, map_routine_structure(<<>>, TRUE, TRUE),
     map_routine_structure(<<>>, FALSE, FALSE)}

FocusAreas == {<<>>, <<"spatial">>, <<"elements", "form">>}

StylePreferences == {"technical", "artistic", "competitive"}

SynthesisArgs ==
    {[routine_analysis |-> r, style_preference |-> s] @@ f :
        r \in RoutineAnalyses, s \in StylePreferences,
        f \in OptArg("focus_areas", FocusAreas)}

(* Execution records a caller passes: any subset of the six flags, each    *)
(* true or false, with or without an element_type.                         *)
FlagNames ==
    {"body_extended", "legs_straight", "toes_pointed", "above_shoulder",
     "brushing", "hitting"}

ExecutionTypes == {"scissor", "circle", "single_leg", "double_scissor"}

Executions ==
    LET flags == UNION {[S -> BOOLEAN] : S \in SUBSET FlagNames}
    IN flags \cup
       {f @@ [element_type |-> t] : f \in flags, t \in ExecutionTypes}

(* Strings a caller passes as error_type: every deduction name, every      *)
(* description text, and strings that are neither.                         *)
ErrorTypeArgs ==
    UNION {DOMAIN EXECUTION_DEDUCTIONS_table[c] \cup
           Values(EXECUTION_DEDUCTIONS_table[c]) :
              c \in DOMAIN EXECUTION_DEDUCTIONS_table}
    \cup {"unknown", "", "Bent_knees", "form_breaks", "rhythm_errors",
          "bent knees", "amplitude"}

(***************************************************************************)
(* The server: one request at a time                                       *)
(***************************************************************************)
Idle == [op |-> "idle"]

(* No call has been kept yet. *)
NothingSeen == [call |-> Idle, ret |-> None]

Init ==
    /\ ELEMENT_GROUPS = ELEMENT_GROUPS_table
    /\ SPATIAL_ZONES = SPATIAL_ZONES_table
    /\ TEMPORAL_QUALITIES = TEMPORAL_QUALITIES_table
    /\ FORM_ELEMENTS = FORM_ELEMENTS_table
    /\ EXECUTION_DEDUCTIONS = EXECUTION_DEDUCTIONS_table
    /\ call = Idle
    /\ ret = None
    /\ seen = NothingSeen

GetElementGroup ==
    /\ call = Idle
    /\ \E group_id \in GroupIdArgs :
        /\ call' = [op |-> "get_element_group", group_id |-> group_id]
        /\ ret' = get_element_group(ELEMENT_GROUPS, group_id)
    /\ UNCHANGED <<tables, seen>>

GetMovementsByGroup ==
    /\ call = Idle
    /\ \E group_id \in GroupIdArgs :
        /\ call' = [op |-> "get_movements_by_group", group_id |-> group_id]
        /\ ret' = get_movements_by_group(ELEMENT_GROUPS, group_id)
    /\ UNCHANGED <<tables, seen>>

GetElementVocabulary ==
    /\ call = Idle
    /\ \E args \in VocabularyArgs :
        /\ call' = [op |-> "get_element_vocabulary", args |-> args]
        /\ ret' = get_element_vocabulary(ELEMENT_GROUPS, args)
    /\ UNCHANGED <<tables, seen>>

AnalyzeSpatialComposition ==
    /\ call = Idle
    /\ \E args \in SpatialCompositionArgs :
        /\ call' = [op |-> "analyze_spatial_composition", args |-> args]
        /\ ret' = analyze_spatial_composition(SPATIAL_ZONES, args)
    /\ SPATIAL_ZONES' =
          TableAfterAssignments(SPATIAL_ZONES,
              analyze_spatial_composition(SPATIAL_ZONES, EmptyDict), ret')
    /\ UNCHANGED <<ELEMENT_GROUPS, TEMPORAL_QUALITIES, FORM_ELEMENTS,
                   EXECUTION_DEDUCTIONS, seen>>

GetTemporalFramework ==
    /\ call = Idle
    /\ \E args \in TemporalFrameworkArgs :
        /\ call' = [op |-> "get_temporal_framework", args |-> args]
        /\ ret' = get_temporal_framework(TEMPORAL_QUALITIES, args)
    /\ TEMPORAL_QUALITIES' =
          TableAfterAssignments(TEMPORAL_QUALITIES,
              get_temporal_framework(TEMPORAL_QUALITIES, EmptyDict), ret')
    /\ UNCHANGED <<ELEMENT_GROUPS, SPATIAL_ZONES, FORM_ELEMENTS,
                   EXECUTION_DEDUCTIONS, seen>>

AssessExecutionForm ==
    /\ call = Idle
    /\ \E ex \in Executions :
        /\ call' = [op |-> "assess_execution_form", element_execution |-> ex]
        /\ ret' = assess_execution_form(EXECUTION_DEDUCTIONS, FORM_ELEMENTS,
                                        ex)
    /\ UNCHANGED <<tables, seen>>

GetAestheticDimensions ==
    /\ call = Idle
    /\ call' = [op |-> "get_aesthetic_dimensions"]
    /\ ret' = get_aesthetic_dimensions(ELEMENT_GROUPS, SPATIAL_ZONES,
                                       TEMPORAL_QUALITIES, FORM_ELEMENTS)
    /\ UNCHANGED <<tables, seen>>

SynthesizeAestheticDescription ==
    /\ call = Idle
    /\ \E args \in SynthesisArgs :
        /\ call' = [op |-> "synthesize_aesthetic_description", args |-> args]
        /\ ret' = synthesize_aesthetic_description(args)
    /\ UNCHANGED <<tables, seen>>

GetServerInfo ==
    /\ call = Idle
    /\ call' = [op |-> "get_server_info"]
    /\ ret' = get_server_info
    /\ UNCHANGED <<tables, seen>>

GetDeductionCategory ==
    /\ call = Idle
    /\ \E error_type \in ErrorTypeArgs :
        /\ call' = [op |-> "get_deduction_category",
                    error_type |-> error_type]
        /\ ret' = Str(get_deduction_category(EXECUTION_DEDUCTIONS,
                                              error_type))
    /\ UNCHANGED <<tables, seen>>

AssessFormQuality ==
    /\ call = Idle
    /\ \E ex \in Executions :
        /\ call' = [op |-> "assess_form_quality", element_execution |-> ex]
        /\ ret' = assess_form_quality(ex)
    /\ UNCHANGED <<tables, seen>>

AnalyzeSpatialCoverage ==
    /\ call = Idle
    /\ \E elements \in ElementSequences :
        /\ call' = [op |-> "analyze_spatial_coverage", elements |-> elements]
        /\ ret' = analyze_spatial_coverage(elements)
    /\ UNCHANGED <<tables, seen>>

AnalyzeTempoStrategy ==
    /\ call = Idle
    /\ \E routine_structure \in ElementSequences \cup LongSequences :
        /\ call' = [op |-> "analyze_tempo_strategy",
                    routine_structure |-> routine_structure]
        /\ ret' = analyze_tempo_strategy(routine_structure)
    /\ UNCHANGED <<tables, seen>>

MapRoutineStructure ==
    /\ call = Idle
    /\ \E element_sequence \in ElementSequences \cup TypeOnlySequences,
          include_spatial \in BOOLEAN, include_temporal \in BOOLEAN :
        /\ call' = [op |-> "map_routine_structure",
                    element_sequence |-> element_sequence,
                    include_spatial |-> include_spatial,
                    include_temporal |-> include_temporal]
        /\ ret' = map_routine_structure(element_sequence, include_spatial,
                                        include_temporal)
    /\ UNCHANGED <<tables, seen>>

MapRoutineStructureJson ==
    /\ call = Idle
    /\ \E element_sequence \in JsonElementSequences,
          include_spatial \in BOOLEAN, include_temporal \in BOOLEAN :
        /\ call' = [op |-> "map_routine_structure_json",
                    element_sequence |-> element_sequence,
                    include_spatial |-> include_spatial,
                    include_temporal |-> include_temporal]
        /\ ret' = map_routine_structure_json(element_sequence,
                                             include_spatial,
                                             include_temporal)
    /\ UNCHANGED <<tables, seen>>

(* The result has been handed to the caller; the server waits for the      *)
(* next request.                                                           *)
Return ==
    /\ call # Idle
    /\ call' = Idle
    /\ ret' = None
    /\ UNCHANGED <<tables, seen>>

Next ==
    \/ GetElementGroup
    \/ GetMovementsByGroup
    \/ GetElementVocabulary
    \/ AnalyzeSpatialComposition
    \/ GetTemporalFramework
    \/ GetDeductionCategory
    \/ AssessFormQuality
    \/ AnalyzeSpatialCoverage
    \/ AnalyzeTempoStrategy
    \/ MapRoutineStructure
    \/ MapRoutineStructureJson
    \/ AssessExecutionForm
    \/ GetAestheticDimensions
    \/ SynthesizeAestheticDescription
    \/ GetServerInfo
    \/ Return

Spec == Init /\ [][Next]_vars

(***************************************************************************)
(* The server with one earlier call kept                                   *)
(***************************************************************************)
(* The calls that are kept: one of each validator and mapper and one of    *)
(* each handler that assigns keys next to a table.                         *)
ProbeCalls ==
    { [op |-> "analyze_tempo_strategy",
       routine_structure |->
          <<[element_type |-> "circle", zone |-> "end_left",
             tempo |-> "fast", difficulty_value |-> "B"],
            [element_type |-> "dismount", pause |-> TRUE]>>],
      [op |-> "map_routine_structure",
       element_sequence |->
          <<[element_type |-> "scissor", zone |-> "saddle"],
            [element_type |-> "travel", zone |-> "end_right",
             tempo |-> "moderate", difficulty_value |-> "A"]>>,
       include_spatial |-> TRUE, include_temporal |-> TRUE],
      [op |-> "analyze_spatial_composition", args |-> EmptyDict],
      [op |-> "get_temporal_framework",
       args |-> [rhythm_type |-> "metronomic"]] }

(* The current call and its result are kept, once. *)
Remember ==
    /\ call \in ProbeCalls
    /\ seen = NothingSeen
    /\ seen' = [call |-> call, ret |-> ret]
    /\ UNCHANGED <<tables, call, ret>>

HistoryNext ==
    \/ Next
    \/ Remember

HistorySpec == Init /\ [][HistoryNext]_vars

(***************************************************************************)
(* Properties                                                              *)
(***************************************************************************)
CanonicalZones == {"end_left", "saddle", "end_right"}

(* The zone values carried by the elements of a sequence. *)
ZoneValues(seq) ==
    {z \in {"end_left", "saddle", "end_right", "middle", "left", "right"} :
        \E i \in 1..Len(seq) : "zone" \in DOMAIN seq[i] /\ seq[i].zone = z}

(* Some element of the sequence carries a true pause flag. *)
HasPausedElement(seq) ==
    \E i \in 1..Len(seq) : "pause" \in DOMAIN seq[i] /\ seq[i].pause = TRUE

(* The tempo labels of a sequence, an absent tempo counted as "moderate". *)
TempoLabels(seq) ==
    {t \in {"moderate", "fast"} :
        \E i \in 1..Len(seq) :
            IF "tempo" \in DOMAIN seq[i] THEN seq[i].tempo = t
            ELSE t = "moderate"}

(* C1: map_routine_structure returns structure_valid = true if and only    *)
(* if all requested checks pass: at least 4 distinct element groups are    *)
(* present, and include_spatial is false or the spatial validator reports  *)
(* coverage_complete, and include_temporal is false or the temporal        *)
(* validator reports continuity_maintained.                                *)
C1_ValidIffRequestedChecksPass ==
    call.op = "map_routine_structure" =>
        (ret.structure_valid <=>
            /\ Cardinality(ret.element_groups_present) >= 4
            /\ \/ ~call.include_spatial
               \/ analyze_spatial_coverage(call.element_sequence)
                      .coverage_complete
            /\ \/ ~call.include_temporal
               \/ analyze_tempo_strategy(call.element_sequence)
                      .continuity_maintained)

(* A routine with spatial analysis switched off and incomplete coverage    *)
(* that is valid, the temporal check having been requested and passed.     *)
C1_Witness ==
    /\ call.op = "map_routine_structure"
    /\ ~call.include_spatial
    /\ call.include_temporal
    /\ ~CanonicalZones \subseteq ZoneValues(call.element_sequence)
    /\ ret.structure_valid

(* C2: analyze_spatial_coverage returns coverage_complete = true if and    *)
(* only if the set of zone values carried by the elements is a superset    *)
(* of {end_left, saddle, end_right}; duplicates and further zone strings   *)
(* do not change the verdict.                                              *)
C2_CoverageCompleteIffSuperset ==
    call.op = "analyze_spatial_coverage" =>
        (ret.coverage_complete <=>
            CanonicalZones \subseteq ZoneValues(call.elements))

(* Complete coverage by a sequence that also carries a non-canonical zone. *)
C2_Witness ==
    /\ call.op = "analyze_spatial_coverage"
    /\ ret.coverage_complete
    /\ "middle" \in ZoneValues(call.elements)

(* C3: analyze_tempo_strategy returns "metronomic" exactly when the set    *)
(* of distinct tempo labels (absent counted as "moderate") has exactly     *)
(* one member and "syncopated" exactly when it has two or more, for        *)
(* sequences of any length.                                                *)
C3_RhythmByDistinctTempos ==
    call.op = "analyze_tempo_strategy" =>
        LET n == Cardinality(TempoLabels(call.routine_structure))
        IN /\ ret.rhythm_pattern = "metronomic" <=> n = 1
           /\ ret.rhythm_pattern = "syncopated" <=> n >= 2

(* C4: analyze_tempo_strategy returns continuity_maintained = false if     *)
(* and only if at least one element carries a true pause flag, an absent   *)
(* flag counting as false, wherever and however often it occurs.           *)
C4_ContinuityIffNoPause ==
    call.op = "analyze_tempo_strategy" =>
        (ret.continuity_maintained = FALSE
            <=> HasPausedElement(call.routine_structure))

(* A routine whose only paused element is its last one, after elements     *)
(* with an absent and with a false pause flag.                             *)
C4_Witness ==
    /\ call.op = "analyze_tempo_strategy"
    /\ LET seq == call.routine_structure
       IN /\ Len(seq) >= 3
          /\ "pause" \notin DOMAIN seq[1]
          /\ Get(seq[2], "pause", TRUE) = FALSE
          /\ \A i \in 1..(Len(seq) - 1) : ~Get(seq[i], "pause", FALSE)
          /\ Get(seq[Len(seq)], "pause", FALSE)
    /\ ~ret.continuity_maintained

(* C5: whenever fewer than 4 distinct element groups are present,          *)
(* map_routine_structure returns structure_valid = false and notes holds   *)
(* the insufficient-variety note, whatever the two flags, the zones, the   *)
(* tempos and the pause flags are.                                         *)
C5_FewGroupsInvalid ==
    (/\ call.op = "map_routine_structure"
     /\ Cardinality(ret.element_groups_present) < 4)
        => /\ ret.structure_valid = FALSE
           /\ \E i \in 1..Len(ret.notes) :
                ret.notes[i] =
                    "Insufficient element group variety - need 4 groups"

(* Three groups, full zone coverage, no pause, neither analysis requested: *)
(* the group check alone makes the routine invalid.                        *)
C5_Witness ==
    /\ call.op = "map_routine_structure"
    /\ ~call.include_spatial
    /\ ~call.include_temporal
    /\ Cardinality(ret.element_groups_present) = 3
    /\ CanonicalZones \subseteq ZoneValues(call.element_sequence)
    /\ ~HasPausedElement(call.element_sequence)
    /\ ~ret.structure_valid
    /\ ret.notes = <<"Insufficient element group variety - need 4 groups">>

(* The deduction names in their fixed order, and their penalties in tenths. *)
DeductionOrder ==
    <<"lack_of_extension", "bent_knees", "flexed_feet", "lack_of_amplitude",
      "brushing", "hitting">>

DeductionPenalty ==
    [lack_of_extension |-> 3, bent_knees |-> 3, flexed_feet |-> 1,
     lack_of_amplitude |-> 3, brushing |-> 1, hitting |-> 3]

(* flag k of the record is present and false / present and true *)
FlagFalse(ex, k) == k \in DOMAIN ex /\ ex[k] = FALSE
FlagTrue(ex, k) == k \in DOMAIN ex /\ ex[k] = TRUE

(* The condition of each deduction, as the table of conditions states it. *)
ConditionFired(ex, name) ==
    CASE name = "lack_of_extension" -> FlagFalse(ex, "body_extended")
      [] name = "bent_knees" -> FlagFalse(ex, "legs_straight")
      [] name = "flexed_feet" -> FlagFalse(ex, "toes_pointed")
      [] name = "lack_of_amplitude" ->
            /\ "element_type" \in DOMAIN ex
            /\ ex.element_type = "scissor"
            /\ FlagFalse(ex, "above_shoulder")
      [] name = "brushing" -> FlagTrue(ex, "brushing")
      [] name = "hitting" -> FlagTrue(ex, "hitting")

(* The total penalty of the first n conditions of the fixed order. *)
RECURSIVE FiredPenalty(_, _)
FiredPenalty(ex, n) ==
    IF n = 0 THEN 0
    ELSE FiredPenalty(ex, n - 1)
         + (IF ConditionFired(ex, DeductionOrder[n])
            THEN DeductionPenalty[DeductionOrder[n]] ELSE 0)

(* The fired names in the fixed order, among the first n. *)
RECURSIVE FiredNames(_, _)
FiredNames(ex, n) ==
    IF n = 0 THEN <<>>
    ELSE FiredNames(ex, n - 1)
         \o (IF ConditionFired(ex, DeductionOrder[n])
             THEN <<DeductionOrder[n]>> ELSE <<>>)

AllConditionsViolated(ex) ==
    \A i \in 1..Len(DeductionOrder) : ConditionFired(ex, DeductionOrder[i])

(* C6: assess_form_quality returns quality_score = 10.0 minus the sum of   *)
(* the fixed penalties of exactly the conditions that fired, and           *)
(* deductions lists exactly the fired names in the fixed order, each at    *)
(* most once (score in tenths).                                            *)
C6_ScoreAndDeductions ==
    call.op = "assess_form_quality" =>
        /\ ret.quality_score = 100 - FiredPenalty(call.element_execution, 6)
        /\ ret.deductions = FiredNames(call.element_execution, 6)

(* The record {body_extended: false, legs_straight: true, toes_pointed:    *)
(* true, hitting: true}: deductions lack_of_extension, hitting; score 9.4. *)
C6_Witness ==
    /\ call.op = "assess_form_quality"
    /\ DOMAIN call.element_execution =
          {"body_extended", "legs_straight", "toes_pointed", "hitting"}
    /\ call.element_execution.body_extended = FALSE
    /\ call.element_execution.legs_straight = TRUE
    /\ call.element_execution.toes_pointed = TRUE
    /\ call.element_execution.hitting = TRUE
    /\ ret.deductions = <<"lack_of_extension", "hitting">>
    /\ ret.quality_score = 94
    /\ ret.form_assessment = "errors_present"

(* C7 as stated: a record violating all conditions scores 10.0 - 1.3 =     *)
(* 8.7, and 8.7 is the lowest score the function returns.                  *)
C7_FloorIs87 ==
    call.op = "assess_form_quality" =>
        /\ ret.quality_score >= 87
        /\ AllConditionsViolated(call.element_execution)
              => ret.quality_score = 87

(* C7 amended: a record violating all six conditions scores 10.0 - 1.4 =   *)
(* 8.6; 1.4 is the largest total penalty and 8.6 the lowest score.         *)
C7_FloorIs86 ==
    call.op = "assess_form_quality" =>
        /\ ret.quality_score >= 86
        /\ 100 - ret.quality_score <= 14
        /\ AllConditionsViolated(call.element_execution)
              => ret.quality_score = 86

(* A scissor record violating all six conditions. *)
C7_Witness ==
    /\ call.op = "assess_form_quality"
    /\ AllConditionsViolated(call.element_execution)
    /\ Len(ret.deductions) = 6
    /\ ret.quality_score = 86

(* C8: form_assessment is "clean" if and only if deductions is empty,      *)
(* otherwise "errors_present"; quality_score is never below 0 nor above    *)
(* 10.0 and equals 10.0 if and only if the assessment is "clean"; the      *)
(* empty record yields 10.0, no deductions, "clean".                       *)
C8_CleanIffNoDeductions ==
    call.op = "assess_form_quality" =>
        /\ ret.form_assessment \in {"clean", "errors_present"}
        /\ ret.form_assessment = "clean" <=> Len(ret.deductions) = 0
        /\ ret.quality_score >= 0
        /\ ret.quality_score <= 100
        /\ ret.quality_score = 100 <=> ret.form_assessment = "clean"
        /\ DOMAIN call.element_execution = {} =>
              /\ ret.quality_score = 100
              /\ ret.deductions = <<>>
              /\ ret.form_assessment = "clean"

(* The empty execution record, assessed clean. *)
C8_Witness ==
    /\ call.op = "assess_form_quality"
    /\ DOMAIN call.element_execution = {}
    /\ ret.form_assessment = "clean"
    /\ ret.quality_score = 100

(* The categories under which a string is listed as a deduction name. *)
CategoriesNaming(error_type) ==
    {c \in DOMAIN EXECUTION_DEDUCTIONS_table :
        error_type \in DOMAIN EXECUTION_DEDUCTIONS_table[c]}

(* The categories under which a string is a deduction's description text. *)
CategoriesDescribing(error_type) ==
    {c \in DOMAIN EXECUTION_DEDUCTIONS_table :
        \E n \in DOMAIN EXECUTION_DEDUCTIONS_table[c] :
            EXECUTION_DEDUCTIONS_table[c][n] = error_type}

(* C9 as stated: get_deduction_category returns category c exactly when    *)
(* its argument is a deduction name listed under c, and "unknown" for      *)
(* every string that is not a deduction name of any category.              *)
C9_CategoryByNameOnly ==
    call.op = "get_deduction_category" =>
        /\ \A c \in DOMAIN EXECUTION_DEDUCTIONS_table :
              ret.str = c <=> c \in CategoriesNaming(call.error_type)
        /\ CategoriesNaming(call.error_type) = {} => ret.str = "unknown"

(* C9 amended: get_deduction_category returns category c exactly when its  *)
(* argument is a deduction name or a deduction description text listed     *)
(* under c, and "unknown" for every string that is neither.                *)
C9_CategoryByNameOrDescription ==
    call.op = "get_deduction_category" =>
        LET cats == CategoriesNaming(call.error_type)
                    \cup CategoriesDescribing(call.error_type)
        IN /\ \A c \in DOMAIN EXECUTION_DEDUCTIONS_table :
                ret.str = c <=> c \in cats
           /\ cats = {} <=> ret.str = "unknown"

(* A description text resolved to the category of its deduction. *)
C9_Witness ==
    /\ call.op = "get_deduction_category"
    /\ call.error_type = "Light contact with apparatus"
    /\ ret.str = "apparatus_violations"

(* The short id of each group. *)
ShortId ==
    [scissors_single_leg |-> "EG_I", circles_flairs |-> "EG_II",
     travels |-> "EG_III", spindles_handstands |-> "EG_IV",
     dismounts |-> "EG_V"]

(* C10: get_element_group called with a group's short id or semantic name  *)
(* returns that group's record, whose id is the group's short id, the      *)
(* same record for both forms; every other string returns None.            *)
C10_GroupByIdOrName ==
    call.op = "get_element_group" =>
        /\ \A g \in DOMAIN ShortId :
              call.group_id \in {g, ShortId[g]} =>
                  /\ ret = ELEMENT_GROUPS_table[g]
                  /\ ret.id = ShortId[g]
        /\ (\A g \in DOMAIN ShortId : call.group_id \notin {g, ShortId[g]})
              => ret = None

(* A lookup by short id that is not the first entry of the table. *)
C10_Witness ==
    /\ call.op = "get_element_group"
    /\ call.group_id = "EG_IV"
    /\ ret = ELEMENT_GROUPS_table["spindles_handstands"]

(* The keys of the summary of one group. *)
SummaryKeys ==
    {"id", "name", "description", "visual_signature", "movement_count"}

(* A result is the whole table, full or summarized: its keys are the       *)
(* semantic names of the groups.                                           *)
IsWholeTable(r) == DOMAIN r = DOMAIN ShortId

(* A result is the record of group g, full or summarized. *)
IsGroupRecord(r, g) ==
    /\ DOMAIN r \in {DOMAIN ELEMENT_GROUPS_table[g], SummaryKeys}
    /\ r.id = ShortId[g]
    /\ r.name = ELEMENT_GROUPS_table[g].name

(* C11: get_element_vocabulary returns the full table only when            *)
(* element_group is absent or null; for every supplied string key that     *)
(* matches a group's short id or semantic name it returns that group's     *)
(* (full or summarized) record, and for every supplied string key that     *)
(* matches no group it returns an {error} record rather than the table or  *)
(* a group.                                                                *)
C11_TableOnlyWhenKeyAbsent ==
    call.op = "get_element_vocabulary" =>
        LET args == call.args
            supplied == "element_group" \in DOMAIN args
            matched == {g \in DOMAIN ShortId :
                          supplied /\ args.element_group \in {g, ShortId[g]}}
        IN /\ IsWholeTable(ret) => ~supplied
           /\ \A g \in matched : IsGroupRecord(ret, g)
           /\ (supplied /\ matched = {}) => DOMAIN ret = {"error"}

(* The short ids and semantic names of the groups. *)
ValidGroupKeys == DOMAIN ShortId \cup {ShortId[g] : g \in DOMAIN ShortId}

(* C12: every one of the five entries of the element-group table has a     *)
(* non-empty id and a non-empty movements mapping, so that                 *)
(* get_movements_by_group returns a non-empty mapping, and the summary     *)
(* movement_count is at least 1, for every valid group key.                *)
C12_EveryGroupHasMovements ==
    /\ \A g \in DOMAIN ELEMENT_GROUPS :
          /\ "id" \in DOMAIN ELEMENT_GROUPS[g]
          /\ ELEMENT_GROUPS[g].id # ""
          /\ "movements" \in DOMAIN ELEMENT_GROUPS[g]
          /\ DOMAIN ELEMENT_GROUPS[g].movements # {}
    /\ (call.op = "get_movements_by_group"
            /\ call.group_id \in ValidGroupKeys)
          => DOMAIN ret # {}
    /\ (call.op = "get_element_vocabulary"
            /\ "element_group" \in DOMAIN call.args
            /\ call.args.element_group \in ValidGroupKeys
            /\ call.args.detail_level = "summary")
          => ret.movement_count >= 1

(* The lookup parameters of the two framework operations: the keys of the  *)
(* table each is looked up in, and the result field its entry is put in.   *)
LookupKeys ==
    [zone_focus |-> DOMAIN SPATIAL_ZONES_table.apparatus_sections,
     support_configuration |->
        DOMAIN SPATIAL_ZONES_table.support_configurations,
     trajectory_type |-> DOMAIN SPATIAL_ZONES_table.trajectory_patterns,
     rhythm_type |-> DOMAIN TEMPORAL_QUALITIES_table.rhythm_patterns,
     phase_focus |->
        DOMAIN TEMPORAL_QUALITIES_table.phase_timing.critical_phases]

LookupEntry(p, key) ==
    CASE p = "zone_focus" -> SPATIAL_ZONES_table.apparatus_sections[key]
      [] p = "support_configuration" ->
            SPATIAL_ZONES_table.support_configurations[key]
      [] p = "trajectory_type" ->
            SPATIAL_ZONES_table.trajectory_patterns[key]
      [] p = "rhythm_type" -> TEMPORAL_QUALITIES_table.rhythm_patterns[key]
      [] p = "phase_focus" ->
            TEMPORAL_QUALITIES_table.phase_timing.critical_phases[key]

DetailField ==
    [zone_focus |-> "focused_zone",
     support_configuration |-> "support_details",
     trajectory_type |-> "trajectory_details",
     rhythm_type |-> "rhythm_details",
     phase_focus |-> "phase_details"]

IsFrameworkCall ==
    call.op \in {"analyze_spatial_composition", "get_temporal_framework"}

(* The supplied lookup parameters of the call that are not in their table. *)
UnknownParams ==
    {p \in DOMAIN call.args : call.args[p] \notin LookupKeys[p]}

(* The supplied lookup parameters of the call that are in their table. *)
KnownParams ==
    {p \in DOMAIN call.args : call.args[p] \in LookupKeys[p]}

(* The record carries an error message that quotes the key. *)
ErrorIdentifies(r, key) ==
    /\ "error" \in DOMAIN r
    /\ \E what \in {"Zone", "Support config", "Trajectory", "Rhythm type",
                    "Phase"} :
          r.error = what \o " '" \o key \o "' not found"

(* C13: in analyze_spatial_composition and get_temporal_framework          *)
(* not-found is reported per field: for every supplied lookup key that is  *)
(* not in its table the returned record carries an error identifying that  *)
(* key, for every combination of known and unknown keys, two or three      *)
(* unknown keys at once included.                                          *)
C13_ErrorForEveryUnknownKey ==
    IsFrameworkCall =>
        \A p \in UnknownParams : ErrorIdentifies(ret, call.args[p])

(* C13 for calls whose unknown keys are all non-empty strings. *)
C13_NonEmptyUnknownKeys ==
    (IsFrameworkCall /\ \A q \in UnknownParams : call.args[q] # "")
      => \A p \in UnknownParams : ErrorIdentifies(ret, call.args[p])

(* C14: a not-found key does not invalidate the sibling fields: each       *)
(* supplied key that is in its table produces its detail field             *)
(* (focused_zone, support_details, trajectory_details, rhythm_details,     *)
(* phase_details) with the table's entry, and the base reference tables    *)
(* are always present, whatever other keys of the call are unknown.        *)
C14_KnownKeysKeepTheirDetails ==
    /\ IsFrameworkCall =>
          \A p \in KnownParams :
              /\ DetailField[p] \in DOMAIN ret
              /\ ret[DetailField[p]] = LookupEntry(p, call.args[p])
    /\ call.op = "analyze_spatial_composition" =>
          /\ {"spatial_zones", "apparatus_specs"} \subseteq DOMAIN ret
          /\ ret.spatial_zones = SPATIAL_ZONES_table
          /\ ret.apparatus_specs = APPARATUS_SPECS
    /\ call.op = "get_temporal_framework" =>
          /\ {"temporal_qualities", "timing_metrics"} \subseteq DOMAIN ret
          /\ ret.temporal_qualities = TEMPORAL_QUALITIES_table
          /\ ret.timing_metrics = TIMING_METRICS

(* An unknown zone before a known support configuration and an unknown     *)
(* trajectory after it: the support details are there, beside an error.    *)
C14_Witness ==
    /\ call.op = "analyze_spatial_composition"
    /\ call.args = [zone_focus |-> "middle",
                    support_configuration |-> "single_pommel",
                    trajectory_type |-> "zigzag"]
    /\ "error" \in DOMAIN ret
    /\ ret.support_details =
          SPATIAL_ZONES_table.support_configurations["single_pommel"]
    /\ "focused_zone" \notin DOMAIN ret

(* The fields every RoutineAnalysis has. *)
RoutineAnalysisKeys ==
    {"element_count", "element_groups_present", "difficulty_profile",
     "structure_valid", "notes", "synthesis_ready"}

(* C15: map_routine_structure never fails: for every element sequence,     *)
(* the empty one and elements with missing or malformed fields (a value    *)
(* of the wrong type, null, a non-scalar) included, it returns a           *)
(* RoutineAnalysis, with defaults in place of what is missing, and raises  *)
(* nothing.                                                                *)
C15_NeverRaises ==
    call.op \in {"map_routine_structure", "map_routine_structure_json"} =>
        /\ "raised" \notin DOMAIN ret
        /\ RoutineAnalysisKeys \subseteq DOMAIN ret

(* C15 for elements that are all dicts. *)
C15_DictsNeverRaise ==
    (call.op = "map_routine_structure_json"
        /\ \A i \in 1..Len(call.element_sequence) :
              call.element_sequence[i].type = "dict")
      => "raised" \notin DOMAIN ret

(* C16: after any sequence of calls to the exposed operations the four     *)
(* taxonomy tables and the deduction catalog are equal to their initial    *)
(* contents: no operation changes them.                                    *)
C16_TablesNeverChange ==
    /\ ELEMENT_GROUPS = ELEMENT_GROUPS_table
    /\ SPATIAL_ZONES = SPATIAL_ZONES_table
    /\ TEMPORAL_QUALITIES = TEMPORAL_QUALITIES_table
    /\ FORM_ELEMENTS = FORM_ELEMENTS_table
    /\ EXECUTION_DEDUCTIONS = EXECUTION_DEDUCTIONS_table

(* A call that has assigned three keys of its result, two details and an   *)
(* error, beside the table it returns a reference to.                      *)
C16_Witness ==
    /\ call.op = "analyze_spatial_composition"
    /\ {"focused_zone", "trajectory_details", "error"} \subseteq DOMAIN ret
    /\ ret.spatial_zones = SPATIAL_ZONES
    /\ SPATIAL_ZONES = SPATIAL_ZONES_table

C18_FatigueIffMoreThanEight ==
    call.op = "analyze_tempo_strategy" =>
        /\ Len(call.routine_structure) >= 9 =>
              ret.fatigue_risk_zones = <<"routine_end">>
        /\ Len(call.routine_structure) <= 8 =>
              ret.fatigue_risk_zones = <<>>

(* A routine of nine elements, some paused and some not, flagged. *)
C18_Witness ==
    /\ call.op = "analyze_tempo_strategy"
    /\ Len(call.routine_structure) = 9
    /\ HasPausedElement(call.routine_structure)
    /\ "fast" \in TempoSet(call.routine_structure)
    /\ ret.fatigue_risk_zones = <<"routine_end">>

(* C19: analyze_spatial_coverage returns as zones_covered exactly the      *)
(* distinct zone values of the elements carrying a zone field, each once,  *)
(* and all_sections_used = true if and only if that set has at least 3     *)
(* members; three distinct zones none of which is a section of the horse   *)
(* give all_sections_used = true with coverage_complete = false.           *)
C19_ZonesCoveredAndCounted ==
    call.op = "analyze_spatial_coverage" =>
        LET zones == ZoneValues(call.elements)
        IN /\ ret.zones_covered = zones
           /\ ret.all_sections_used <=> Cardinality(zones) >= 3
           /\ (Cardinality(zones) >= 3 /\ zones \cap CanonicalZones = {})
                 => (ret.all_sections_used /\ ~ret.coverage_complete)

(* Three zones that are no sections of the horse, one of them twice, and   *)
(* an element without a zone.                                              *)
C19_Witness ==
    /\ call.op = "analyze_spatial_coverage"
    /\ Len(call.elements) = 4
    /\ \E i \in 1..4 : "zone" \notin DOMAIN call.elements[i]
    /\ ret.zones_covered = {"middle", "left", "right"}
    /\ ret.all_sections_used
    /\ ~ret.coverage_complete

(* The keyword-to-group mapping as the specification states it. *)
KeywordGroup ==
    [k \in {"circle", "flair", "russian", "spindle"} |-> "circles_flairs"]
    @@ [k \in {"scissor", "single_leg"} |-> "scissors_single_leg"]
    @@ [k \in {"magyar", "sivado", "travel"} |-> "travels"]
    @@ [k \in {"dismount"} |-> "dismounts"]

(* The element types of a sequence that are keywords of the mapping. *)
KeywordTypes(seq) ==
    {seq[i].element_type :
        i \in {j \in 1..Len(seq) :
                  /\ "element_type" \in DOMAIN seq[j]
                  /\ seq[j].element_type \in DOMAIN KeywordGroup}}

(* C20: element_groups_present returned by map_routine_structure is        *)
(* exactly the set of groups one of whose keywords equals, case-sensitive  *)
(* and as a whole string, the element_type of some element; an element     *)
(* with any other or an absent element_type adds no group, causes no       *)
(* error and no note of its own.                                           *)
C20_GroupsByExactKeyword ==
    call.op = "map_routine_structure" =>
        /\ RoutineAnalysisKeys \subseteq DOMAIN ret
        /\ ret.element_groups_present =
               {KeywordGroup[k] : k \in KeywordTypes(call.element_sequence)}
        /\ \A n \in 1..Len(ret.notes) :
               ret.notes[n] \in {NOTE_GROUPS, NOTE_ZONES, NOTE_PAUSES}

(* A routine with a keyword in another case, an element without a type and *)
(* two recognised elements: only the recognised ones add their groups.     *)
C20_Witness ==
    /\ call.op = "map_routine_structure"
    /\ \E i, j \in 1..Len(call.element_sequence) :
           /\ "element_type" \notin DOMAIN call.element_sequence[i]
           /\ "element_type" \in DOMAIN call.element_sequence[j]
           /\ call.element_sequence[j].element_type = "Circle"
    /\ ret.element_groups_present = {"travels", "dismounts"}

(* The difficulty letter an element is counted under. *)
LetterOf(element) ==
    IF "difficulty_value" \in DOMAIN element THEN element.difficulty_value
    ELSE "A"

(* The number of elements of a sequence counted under a letter. *)
Carrying(seq, letter) ==
    Cardinality({i \in 1..Len(seq) : LetterOf(seq[i]) = letter})

RECURSIVE SumOver(_, _)
(* The sum of the values of a dict over a set of its keys. *)
SumOver(d, keys) ==
    IF keys = {} THEN 0
    ELSE LET k == CHOOSE x \in keys : TRUE
         IN d[k] + SumOver(d, keys \ {k})

(* C21: difficulty_profile returned by map_routine_structure maps each     *)
(* difficulty letter to the number of elements carrying it, an element     *)
(* without difficulty_value counted under "A"; every count is at least 1   *)
(* and the counts sum to element_count, the length of the input sequence.  *)
C21_ProfileCountsEveryElement ==
    call.op = "map_routine_structure" =>
        LET seq == call.element_sequence
            profile == ret.difficulty_profile
        IN /\ ret.element_count = Len(seq)
           /\ DOMAIN profile = {LetterOf(seq[i]) : i \in 1..Len(seq)}
           /\ \A letter \in DOMAIN profile :
                  /\ profile[letter] = Carrying(seq, letter)
                  /\ profile[letter] >= 1
           /\ SumOver(profile, DOMAIN profile) = ret.element_count

(* A routine with a letter carried twice, another letter, an element       *)
(* without a letter and an element of no recognised type.                  *)
C21_Witness ==
    /\ call.op = "map_routine_structure"
    /\ Len(call.element_sequence) = 4
    /\ \E i \in 1..4 : "difficulty_value" \notin DOMAIN call.element_sequence[i]
    /\ \E i \in 1..4 :
           /\ "element_type" \in DOMAIN call.element_sequence[i]
           /\ call.element_sequence[i].element_type = "Circle"
    /\ DOMAIN ret.difficulty_profile = {"A", "C"}
    /\ ret.difficulty_profile["C"] = 2
    /\ ret.difficulty_profile["A"] = 2

(* The note of a check if it fails, in a list of its own. *)
NoteIf(fails, note) == IF fails THEN <<note>> ELSE <<>>

(* C22: in every result of map_routine_structure synthesis_ready equals    *)
(* structure_valid and notes is empty if and only if structure_valid is    *)
(* true: each failing requested check appends exactly one note, every      *)
(* requested check is evaluated even after an earlier one failed, and the  *)
(* notes come in the order group variety, zone coverage, continuity.       *)
C22_NotesMirrorFailedChecks ==
    call.op = "map_routine_structure" =>
        LET seq == call.element_sequence
            groups == Cardinality(ret.element_groups_present) < 4
            zones == /\ call.include_spatial
                     /\ ~CanonicalZones \subseteq ZoneValues(seq)
            pauses == call.include_temporal /\ HasPausedElement(seq)
        IN /\ ret.synthesis_ready = ret.structure_valid
           /\ ret.structure_valid <=> ret.notes = <<>>
           /\ ret.notes = NoteIf(groups, NOTE_GROUPS)
                          \o NoteIf(zones, NOTE_ZONES)
                          \o NoteIf(pauses, NOTE_PAUSES)

(* A routine failing the first check and passing the two later ones, both  *)
(* requested: it stays invalid with the one note.                          *)
C22_Witness ==
    /\ call.op = "map_routine_structure"
    /\ call.include_spatial
    /\ call.include_temporal
    /\ CanonicalZones \subseteq ZoneValues(call.element_sequence)
    /\ ~HasPausedElement(call.element_sequence)
    /\ ret.notes = <<NOTE_GROUPS>>
    /\ ~ret.structure_valid
    /\ ~ret.synthesis_ready

(* A routine failing all three checks. *)
C22_WitnessThreeNotes ==
    /\ call.op = "map_routine_structure"
    /\ ret.notes = <<NOTE_GROUPS, NOTE_ZONES, NOTE_PAUSES>>

(* Membership in a list. *)
Among(note, notes) == \E n \in 1..Len(notes) : notes[n] = note

(* C23: the result of map_routine_structure contains spatial_coverage if   *)
(* and only if include_spatial is true and temporal_strategy if and only   *)
(* if include_temporal is true, the included field being what the          *)
(* validator returns for the same sequence; with a flag false, incomplete  *)
(* zone coverage (a paused element) neither makes the routine invalid nor  *)
(* adds a note.                                                            *)
C23_FlagsSelectTheAnalyses ==
    call.op = "map_routine_structure" =>
        LET seq == call.element_sequence
            groupsPass == Cardinality(ret.element_groups_present) >= 4
            zonesPass == CanonicalZones \subseteq ZoneValues(seq)
            pausesPass == ~HasPausedElement(seq)
        IN /\ "spatial_coverage" \in DOMAIN ret <=> call.include_spatial
           /\ "temporal_strategy" \in DOMAIN ret <=> call.include_temporal
           /\ call.include_spatial =>
                  ret.spatial_coverage = analyze_spatial_coverage(seq)
           /\ call.include_temporal =>
                  ret.temporal_strategy = analyze_tempo_strategy(seq)
           /\ ~call.include_spatial =>
                  /\ ~Among(NOTE_ZONES, ret.notes)
                  /\ (groupsPass /\ (~call.include_temporal \/ pausesPass))
                         => ret.structure_valid
           /\ ~call.include_temporal =>
                  /\ ~Among(NOTE_PAUSES, ret.notes)
                  /\ (groupsPass /\ (~call.include_spatial \/ zonesPass))
                         => ret.structure_valid

(* Temporal analysis alone on a routine of four groups with incomplete     *)
(* coverage and no pause: valid, no note, no spatial_coverage field.       *)
C23_Witness ==
    /\ call.op = "map_routine_structure"
    /\ ~call.include_spatial
    /\ call.include_temporal
    /\ ~CanonicalZones \subseteq ZoneValues(call.element_sequence)
    /\ "spatial_coverage" \notin DOMAIN ret
    /\ "temporal_strategy" \in DOMAIN ret
    /\ ret.temporal_strategy.continuity_maintained
    /\ ret.notes = <<>>
    /\ ret.structure_valid

(* Spatial analysis alone on a routine of four groups with a paused        *)
(* element and complete coverage: valid, no note.                          *)
C23_WitnessPaused ==
    /\ call.op = "map_routine_structure"
    /\ call.include_spatial
    /\ ~call.include_temporal
    /\ HasPausedElement(call.element_sequence)
    /\ "temporal_strategy" \notin DOMAIN ret
    /\ ret.spatial_coverage.coverage_complete
    /\ ret.notes = <<>>
    /\ ret.structure_valid

(* C24: the result of analyze_spatial_coverage satisfies                   *)
(* coverage_complete => all_sections_used: complete coverage always        *)
(* implies at least three distinct zones.  The converse does not hold:     *)
(* C24_ConverseFails is a state of the program.                            *)
C24_CompleteImpliesAllSections ==
    call.op = "analyze_spatial_coverage" =>
        (ret.coverage_complete => ret.all_sections_used)

(* Complete coverage by exactly the three sections of the horse. *)
C24_Witness ==
    /\ call.op = "analyze_spatial_coverage"
    /\ ret.coverage_complete
    /\ ret.all_sections_used
    /\ Cardinality(ret.zones_covered) = 3

(* Three distinct zones, two of them sections of the horse, without        *)
(* complete coverage.                                                      *)
C24_ConverseFails ==
    /\ call.op = "analyze_spatial_coverage"
    /\ Cardinality(ret.zones_covered \cap CanonicalZones) = 2
    /\ ret.all_sections_used
    /\ ~ret.coverage_complete

(* The category the specification gives each deduction name that           *)
(* assess_form_quality can emit.                                           *)
CategoryOfDeduction ==
    [d \in {"lack_of_extension", "lack_of_amplitude"} |-> "technical_errors"]
    @@ [d \in {"bent_knees", "flexed_feet"} |-> "form_breaks"]
    @@ [d \in {"brushing", "hitting"} |-> "apparatus_violations"]

(* C25: every deduction name that assess_form_quality emits is resolved by *)
(* assess_execution_form to its fixed category and never to "unknown":     *)
(* lack_of_extension and lack_of_amplitude to technical_errors, bent_knees *)
(* and flexed_feet to form_breaks, brushing and hitting to                 *)
(* apparatus_violations; deduction_categories has exactly one entry per    *)
(* emitted deduction and none maps to rhythm_errors.                       *)
C25_EveryDeductionHasItsCategory ==
    call.op = "assess_execution_form" =>
        LET emitted == Range(ret.deductions)
            categories == ret.deduction_categories
        IN /\ ret.deductions = assess_form_quality(call.element_execution)
                                   .deductions
           /\ emitted \subseteq DOMAIN CategoryOfDeduction
           /\ DOMAIN categories = emitted
           /\ \A d \in emitted :
                  /\ categories[d] = CategoryOfDeduction[d]
                  /\ categories[d] # "unknown"
                  /\ categories[d] # "rhythm_errors"

(* An execution on which all six conditions fire. *)
C25_Witness ==
    /\ call.op = "assess_execution_form"
    /\ Len(ret.deductions) = 6
    /\ DOMAIN ret.deduction_categories = DOMAIN CategoryOfDeduction
    /\ ret.deduction_categories["lack_of_amplitude"] = "technical_errors"

(* The element types carried by the elements of a sequence. *)
TypesOf(seq) ==
    {seq[i].element_type :
        i \in {j \in 1..Len(seq) : "element_type" \in DOMAIN seq[j]}}

(* C26: element_groups_present returned by map_routine_structure is a      *)
(* subset of {circles_flairs, scissors_single_leg, travels, dismounts}     *)
(* and never contains spindles_handstands, a "spindle" element counting    *)
(* as circles_flairs; so structure_valid = true requires all four of       *)
(* those groups, hence at least 4 elements including a dismount.           *)
C26_OnlyFourGroupsEverPresent ==
    call.op = "map_routine_structure" =>
        LET seq == call.element_sequence
            four == {"circles_flairs", "scissors_single_leg", "travels",
                     "dismounts"}
        IN /\ ret.element_groups_present \subseteq four
           /\ "spindles_handstands" \notin ret.element_groups_present
           /\ "spindle" \in TypesOf(seq) =>
                  "circles_flairs" \in ret.element_groups_present
           /\ ret.structure_valid =>
                  /\ ret.element_groups_present = four
                  /\ Len(seq) >= 4
                  /\ "dismount" \in TypesOf(seq)

(* A valid routine whose circles_flairs group comes from a spindle alone,  *)
(* spindles_handstands being a group of the table.                         *)
C26_Witness ==
    /\ call.op = "map_routine_structure"
    /\ "spindles_handstands" \in DOMAIN ELEMENT_GROUPS
    /\ "spindle" \in TypesOf(call.element_sequence)
    /\ TypesOf(call.element_sequence)
           \cap {"circle", "flair", "russian"} = {}
    /\ "dismount" \in TypesOf(call.element_sequence)
    /\ Len(call.element_sequence) = 4
    /\ ret.structure_valid

(* C27: analyze_tempo_strategy never returns rhythm_pattern = "unknown":   *)
(* for every element sequence, the empty one included, the returned        *)
(* rhythm_pattern is "metronomic" or "syncopated", also where              *)
(* map_routine_structure passes the result on.                             *)
C27_RhythmNeverUnknown ==
    /\ call.op = "analyze_tempo_strategy" =>
           /\ ret.rhythm_pattern \in {"metronomic", "syncopated"}
           /\ ret.rhythm_pattern # "unknown"
    /\ (call.op = "map_routine_structure" /\ call.include_temporal) =>
           ret.temporal_strategy.rhythm_pattern
               \in {"metronomic", "syncopated"}

(* The empty sequence, which has no tempo at all. *)
C27_Witness ==
    /\ call.op = "analyze_tempo_strategy"
    /\ call.routine_structure = <<>>
    /\ ret.rhythm_pattern = "syncopated"

(* The flag behind each deduction that does not look at element_type, and  *)
(* the value of the flag on which it fires.                                *)
FlagOfDeduction ==
    [lack_of_extension |-> <<"body_extended", FALSE>>,
     bent_knees |-> <<"legs_straight", FALSE>>,
     flexed_feet |-> <<"toes_pointed", FALSE>>,
     brushing |-> <<"brushing", TRUE>>,
     hitting |-> <<"hitting", TRUE>>]

(* C28: in assess_form_quality the lack_of_amplitude deduction fires only  *)
(* when element_type is exactly "scissor" and above_shoulder is false: a   *)
(* record with above_shoulder = false and any other or an absent           *)
(* element_type receives no amplitude deduction; the other five            *)
(* conditions fire on their flag alone, whatever the element_type.         *)
C28_AmplitudeOnlyForScissor ==
    call.op = "assess_form_quality" =>
        LET ex == call.element_execution
            emitted == Range(ret.deductions)
            isScissor == /\ "element_type" \in DOMAIN ex
                         /\ ex.element_type = "scissor"
        IN /\ "lack_of_amplitude" \in emitted
                  <=> (isScissor /\ FlagFalse(ex, "above_shoulder"))
           /\ (FlagFalse(ex, "above_shoulder") /\ ~isScissor)
                  => "lack_of_amplitude" \notin emitted
           /\ \A d \in DOMAIN FlagOfDeduction :
                  d \in emitted <=>
                      /\ FlagOfDeduction[d][1] \in DOMAIN ex
                      /\ ex[FlagOfDeduction[d][1]] = FlagOfDeduction[d][2]

(* A double scissor below shoulder height with bent knees: the knees are   *)
(* deducted, the amplitude is not.                                         *)
C28_Witness ==
    /\ call.op = "assess_form_quality"
    /\ "element_type" \in DOMAIN call.element_execution
    /\ call.element_execution.element_type = "double_scissor"
    /\ FlagFalse(call.element_execution, "above_shoulder")
    /\ ret.deductions = <<"bent_knees">>

(* A record without element_type below shoulder height: clean. *)
C28_WitnessNoType ==
    /\ call.op = "assess_form_quality"
    /\ "element_type" \notin DOMAIN call.element_execution
    /\ FlagFalse(call.element_execution, "above_shoulder")
    /\ ret.deductions = <<>>

====
